---- MODULE Spec2Model ----
(***************************************************************************)
(* PetroPulse ingestion core: feed fetcher, article extractor, relevance   *)
(* filter, enrichment loop of the ingestion entry point and the dedup and  *)
(* persistence layer (SQLite table "articles").                            *)
(*                                                                         *)
(* Texts that the code inspects character by character (titles, bodies,    *)
(* keywords, entity mentions) are sequences of one-character strings.      *)
(* URLs and feed addresses are opaque strings; the Python value None is    *)
(* the string NoneVal.                                                     *)
(***************************************************************************)
EXTENDS Integers, Sequences, FiniteSets, TLC

VARIABLES
  db,            \* the SQLite store: [exists, unique, rows]
  web,           \* what the network answers for each feed address
  nlpLoaded,     \* entities._NLP is not None
  pc, df, idx, rows, runs, lastOutcome, lastAdded, lastReported, dbAfterFirst,
  trail,         \* the stages the current run went through, in order
  fArg, fLimit, fFeeds, fIdx, fRows, fPc, fResult,
  xOut, xPc, xResult, xTried,
  qText, qPc, qResult,
  iBatch, iBefore, iPc, iRet,
  cBatch, cPc, cDf, cRet,
  eIn, eEntities, eScore,
  nTitle, nNetloc, nPc, nName

storeVars   == <<db>>
worldVars   == <<web, nlpLoaded>>
mainVars    == <<pc, df, idx, rows, runs, lastOutcome, lastAdded, lastReported, dbAfterFirst,
                 trail>>
fetchVars   == <<fArg, fLimit, fFeeds, fIdx, fRows, fPc, fResult>>
extractVars == <<xOut, xPc, xResult, xTried>>
filterVars  == <<qText, qPc, qResult>>
insertVars  == <<iBatch, iBefore, iPc, iRet>>
concVars    == <<cBatch, cPc, cDf, cRet>>
enrichVars  == <<eIn, eEntities, eScore>>
sourceVars  == <<nTitle, nNetloc, nPc, nName>>
vars == <<storeVars, worldVars, mainVars, fetchVars, extractVars, filterVars,
          insertVars, concVars, enrichVars, sourceVars>>

-----------------------------------------------------------------------------
(* Values *)

\* Python None / pandas NaN / SQL NULL, and None where a text is expected
NoneVal  == "<None>"
NoneText == <<"<None>">>

\* str.lower on the characters the vocabulary and the sample texts use
LowerChar(c) ==
  CASE c = "A" -> "a" [] c = "B" -> "b" [] c = "C" -> "c" [] c = "D" -> "d"
    [] c = "E" -> "e" [] c = "F" -> "f" [] c = "G" -> "g" [] c = "H" -> "h"
    [] c = "I" -> "i" [] c = "J" -> "j" [] c = "K" -> "k" [] c = "L" -> "l"
    [] c = "M" -> "m" [] c = "N" -> "n" [] c = "O" -> "o" [] c = "P" -> "p"
    [] c = "Q" -> "q" [] c = "R" -> "r" [] c = "S" -> "s" [] c = "T" -> "t"
    [] c = "U" -> "u" [] c = "V" -> "v" [] c = "W" -> "w" [] c = "X" -> "x"
    [] c = "Y" -> "y" [] c = "Z" -> "z" [] OTHER -> c

Lower(s) == [i \in 1..Len(s) |-> LowerChar(s[i])]

\* Python's `kw in text` on strings
Contains(text, kw) ==
  \E i \in 1..(Len(text) - Len(kw) + 1) : SubSeq(text, i, i + Len(kw) - 1) = kw

\* str.strip() leaves something
NonBlank(s) == \E i \in 1..Len(s) : s[i] # " "

RECURSIVE Strip(_)
Strip(s) ==
  IF s = <<>> THEN <<>>
  ELSE IF Head(s) = " " THEN Strip(Tail(s))
  ELSE IF s[Len(s)] = " " THEN Strip(SubSeq(s, 1, Len(s) - 1))
  ELSE s

Min(a, b) == IF a <= b THEN a ELSE b

-----------------------------------------------------------------------------
(* Relevance filter: scripts/ingest.py *)

ENERGY_KEYWORDS ==
  <<<<"o","i","l">>,
    <<"g","a","s">>,
    <<"p","e","t","r","o","l","e","u","m">>,
    <<"r","e","f","i","n","e","r","y">>,
    <<"e","x","p","l","o","r","a","t","i","o","n">>,
    <<"p","r","o","d","u","c","t","i","o","n">>,
    <<"d","r","i","l","l","i","n","g">>,
    <<"c","o","m","p","l","e","t","i","o","n">>,
    <<"f","r","a","c","t","u","r","i","n","g">>,
    <<"r","e","s","e","r","v","o","i","r">>,
    <<"p","e","r","f","o","r","a","t","i","o","n">>,
    <<"w","e","l","l","b","o","r","e">>,
    <<"w","e","l","l","h","e","a","d">>,
    <<"u","p","s","t","r","e","a","m">>,
    <<"m","i","d","s","t","r","e","a","m">>,
    <<"d","o","w","n","s","t","r","e","a","m">>,
    <<"f","l","a","r","i","n","g">>,
    <<"s","e","i","s","m","i","c">>,
    <<"m","u","d","l","o","g","g","i","n","g">>,
    <<"p","i","p","e","l","i","n","e">>,
    <<"c","o","m","p","r","e","s","s","o","r">>,
    <<"s","e","p","a","r","a","t","o","r">>,
    <<"f","l","o","w"," ","a","s","s","u","r","a","n","c","e">>,
    <<"s","u","b","s","e","a">>,
    <<"F","P","S","O">>,
    <<"o","f","f","s","h","o","r","e">>,
    <<"o","n","s","h","o","r","e">>,
    <<"p","l","a","t","f","o","r","m">>,
    <<"r","i","g">>,
    <<"c","a","s","i","n","g">>,
    <<"c","o","i","l","e","d"," ","t","u","b","i","n","g">>,
    <<"n","a","t","u","r","a","l"," ","g","a","s">>,
    <<"m","e","t","h","a","n","e">>,
    <<"l","n","g">>,
    <<"c","n","g">>,
    <<"g","a","s"," ","p","r","o","c","e","s","s","i","n","g">>,
    <<"h","y","d","r","o","g","e","n">>,
    <<"h","2">>,
    <<"b","l","u","e"," ","h","y","d","r","o","g","e","n">>,
    <<"g","r","e","e","n"," ","h","y","d","r","o","g","e","n">>,
    <<"u","n","d","e","r","g","r","o","u","n","d"," ","h","y","d","r","o","g","e","n"," ","s","t","o","r","a","g","e">>,
    <<"u","h","s">>,
    <<"s","a","l","t"," ","c","a","v","e","r","n">>,
    <<"g","a","s"," ","s","t","o","r","a","g","e">>,
    <<"s","t","r","a","t","e","g","i","c"," ","p","e","t","r","o","l","e","u","m"," ","r","e","s","e","r","v","e">>,
    <<"s","o","u","r"," ","g","a","s">>,
    <<"s","w","e","e","t"," ","g","a","s">>,
    <<"r","e","n","e","w","a","b","l","e","s">>,
    <<"s","o","l","a","r">>,
    <<"w","i","n","d">>,
    <<"p","h","o","t","o","v","o","l","t","a","i","c">>,
    <<"g","e","o","t","h","e","r","m","a","l">>,
    <<"t","i","d","a","l">>,
    <<"b","i","o","m","a","s","s">>,
    <<"c","l","e","a","n"," ","e","n","e","r","g","y">>,
    <<"g","r","e","e","n"," ","e","n","e","r","g","y">>,
    <<"e","n","e","r","g","y"," ","t","r","a","n","s","i","t","i","o","n">>,
    <<"d","e","c","a","r","b","o","n","i","z","a","t","i","o","n">>,
    <<"s","u","s","t","a","i","n","a","b","i","l","i","t","y">>,
    <<"n","e","t"," ","z","e","r","o">>,
    <<"e","n","e","r","g","y"," ","m","i","x">>,
    <<"r","e","n","e","w","a","b","l","e"," ","i","n","t","e","g","r","a","t","i","o","n">>,
    <<"c","a","r","b","o","n">>,
    <<"c","c","s">>,
    <<"c","c","u","s">>,
    <<"c","a","r","b","o","n"," ","c","a","p","t","u","r","e">>,
    <<"c","a","r","b","o","n"," ","d","i","o","x","i","d","e">>,
    <<"c","o","2"," ","s","t","o","r","a","g","e">>,
    <<"c","o","2"," ","s","e","q","u","e","s","t","r","a","t","i","o","n">>,
    <<"c","a","r","b","o","n"," ","f","o","o","t","p","r","i","n","t">>,
    <<"c","a","r","b","o","n"," ","t","r","a","d","i","n","g">>,
    <<"c","a","r","b","o","n"," ","i","n","t","e","n","s","i","t","y">>,
    <<"m","e","t","h","a","n","e"," ","e","m","i","s","s","i","o","n","s">>,
    <<"g","r","e","e","n","h","o","u","s","e"," ","g","a","s">>,
    <<"g","h","g"," ","e","m","i","s","s","i","o","n","s">>,
    <<"c","l","i","m","a","t","e"," ","c","h","a","n","g","e">>,
    <<"e","n","e","r","g","y">>,
    <<"p","o","w","e","r">>,
    <<"e","l","e","c","t","r","i","c","i","t","y">>,
    <<"s","m","a","r","t"," ","g","r","i","d">>,
    <<"e","n","e","r","g","y"," ","e","f","f","i","c","i","e","n","c","y">>,
    <<"l","o","a","d"," ","f","o","r","e","c","a","s","t","i","n","g">>,
    <<"g","r","i","d"," ","r","e","s","i","l","i","e","n","c","e">>,
    <<"p","o","w","e","r"," ","g","e","n","e","r","a","t","i","o","n">>,
    <<"d","i","s","t","r","i","b","u","t","e","d"," ","e","n","e","r","g","y">>,
    <<"a","i">>,
    <<"a","r","t","i","f","i","c","i","a","l"," ","i","n","t","e","l","l","i","g","e","n","c","e">>,
    <<"m","l">>,
    <<"m","a","c","h","i","n","e"," ","l","e","a","r","n","i","n","g">>,
    <<"d","a","t","a"," ","s","c","i","e","n","c","e">>,
    <<"d","i","g","i","t","a","l"," ","t","w","i","n">>,
    <<"i","o","t">>,
    <<"i","n","t","e","r","n","e","t"," ","o","f"," ","t","h","i","n","g","s">>,
    <<"c","l","o","u","d">>,
    <<"e","d","g","e"," ","c","o","m","p","u","t","i","n","g">>,
    <<"p","r","e","d","i","c","t","i","v","e"," ","m","a","i","n","t","e","n","a","n","c","e">>,
    <<"d","a","t","a","-","d","r","i","v","e","n">>,
    <<"b","i","g"," ","d","a","t","a">>,
    <<"a","n","a","l","y","t","i","c","s">>,
    <<"d","e","e","p"," ","l","e","a","r","n","i","n","g">>,
    <<"r","o","b","o","t","i","c","s">>,
    <<"a","u","t","o","m","a","t","i","o","n">>,
    <<"i","m","a","g","e"," ","a","n","a","l","y","s","i","s">>,
    <<"r","e","m","o","t","e"," ","s","e","n","s","i","n","g">>,
    <<"c","o","r","e"," ","f","l","o","o","d","i","n","g">>,
    <<"p","o","r","o","s","i","t","y">>,
    <<"p","e","r","m","e","a","b","i","l","i","t","y">>,
    <<"p","e","t","r","o","p","h","y","s","i","c","s">>,
    <<"f","l","u","i","d"," ","s","a","t","u","r","a","t","i","o","n">>,
    <<"c","a","p","i","l","l","a","r","y"," ","p","r","e","s","s","u","r","e">>,
    <<"f","o","r","m","a","t","i","o","n"," ","d","a","m","a","g","e">>,
    <<"a","s","p","h","a","l","t","e","n","e">>,
    <<"w","a","x"," ","d","e","p","o","s","i","t","i","o","n">>,
    <<"o","i","l"," ","p","r","i","c","e">>,
    <<"b","r","e","n","t">>,
    <<"w","t","i">>,
    <<"e","n","e","r","g","y"," ","p","o","l","i","c","y">>,
    <<"o","p","e","c">>,
    <<"i","e","a">>,
    <<"e","p","c">>,
    <<"s","u","p","p","l","y"," ","c","h","a","i","n">>,
    <<"e","n","e","r","g","y"," ","m","a","r","k","e","t","s">>,
    <<"s","t","r","a","t","e","g","i","c"," ","r","e","s","e","r","v","e">>,
    <<"s","u","b","s","i","d","y">>,
    <<"i","n","f","l","a","t","i","o","n"," ","r","e","d","u","c","t","i","o","n"," ","a","c","t">>,
    <<"i","r","a">>,
    <<"e","n","e","r","g","y"," ","b","i","l","l">>,
    <<"f","o","s","s","i","l"," ","f","u","e","l">>,
    <<"e","n","e","r","g","y"," ","i","n","v","e","s","t","m","e","n","t">>,
    <<"e","s","g">>,
    <<"e","n","v","i","r","o","n","m","e","n","t","a","l"," ","s","o","c","i","a","l"," ","g","o","v","e","r","n","a","n","c","e">>,
    <<"s","a","f","e","t","y">>,
    <<"h","s","e">>,
    <<"e","m","i","s","s","i","o","n","s"," ","r","e","p","o","r","t","i","n","g">>,
    <<"c","a","r","b","o","n"," ","d","i","s","c","l","o","s","u","r","e">>,
    <<"e","n","v","i","r","o","n","m","e","n","t","a","l"," ","c","o","m","p","l","i","a","n","c","e">>,
    <<"e","n","e","r","g","y"," ","i","n","n","o","v","a","t","i","o","n">>,
    <<"w","o","r","k","f","o","r","c","e"," ","t","r","a","n","s","i","t","i","o","n">>,
    <<"d","i","g","i","t","a","l"," ","t","r","a","n","s","f","o","r","m","a","t","i","o","n">>,
    <<"e","n","e","r","g","y"," ","w","o","r","k","f","o","r","c","e">>>>

is_energy_related(text) ==
  LET t == Lower(text)
  IN  \E k \in 1..Len(ENERGY_KEYWORDS) : Contains(t, ENERGY_KEYWORDS[k])

-----------------------------------------------------------------------------
(* Dedup and persistence layer: db.py *)

\* A row of the articles table, as the entry point builds it
\* (scripts/ingest.py: rows.append({...}))
MkRow(source, title, url, published_at, text, entities, sentiment) ==
  [source |-> source, title |-> title, url |-> url, published_at |-> published_at,
   text |-> text, entities |-> entities, sentiment |-> sentiment, topics |-> NoneVal]

\* The columns of the table that init_db creates
ARTICLE_COLUMNS ==
  {"id", "source", "title", "url", "authors", "published_at", "text", "sentiment",
   "entities", "topics", "created_at"}

\* The columns of a DataFrame built from a list of dicts: all their keys
FrameColumns(s) == UNION {DOMAIN s[i] : i \in DOMAIN s}

\* A fresh database file: no articles table
NoTable == [exists |-> FALSE, unique |-> FALSE, cols |-> {}, rows |-> <<>>]

\* CREATE TABLE IF NOT EXISTS articles (... url TEXT UNIQUE ...)
init_db(d) ==
  IF d.exists THEN d
  ELSE [exists |-> TRUE, unique |-> TRUE, cols |-> ARTICLE_COLUMNS, rows |-> <<>>]

UrlsOf(s) == {s[i].url : i \in DOMAIN s}

\* DataFrame.dropna(subset=["url"])
dropna_url(s) == SelectSeq(s, LAMBDA r : r.url # NoneVal)

\* DataFrame.drop_duplicates(subset=["url"]): the first occurrence is kept
RECURSIVE DropDup(_, _)
DropDup(s, seen) ==
  IF s = <<>> THEN <<>>
  ELSE IF Head(s).url \in seen THEN DropDup(Tail(s), seen)
  ELSE <<Head(s)>> \o DropDup(Tail(s), seen \cup {Head(s).url})

drop_duplicates_url(s) == DropDup(s, {})

\* pd.read_sql("SELECT url FROM articles") inside try/except: a failing
\* query (no such table) yields existing = []
read_existing(d) == IF d.exists THEN UrlsOf(d.rows) ELSE {}

\* A faulty variant of filter_existing: the isin() filter is skipped
filter_existing_Skipped(s, existing) == s

\* df[~df["url"].isin(existing)]
filter_existing(s, existing) == SelectSeq(s, LAMBDA r : r.url \notin existing)

\* A faulty variant of to_sql: the table is replaced by the frame
to_sql_Replaces(d, s) ==
  [db |-> [exists |-> TRUE, unique |-> FALSE, cols |-> FrameColumns(s), rows |-> s],
   raised |-> FALSE]

\* The rows of s before the first one that the UNIQUE table d rejects
RECURSIVE AcceptedPrefix(_, _)
AcceptedPrefix(s, seen) ==
  IF s = <<>> \/ Head(s).url \in seen THEN <<>>
  ELSE <<Head(s)>> \o AcceptedPrefix(Tail(s), seen \cup {Head(s).url})

\* A faulty variant of to_sql: the rows accepted before the failing one
\* stay in the table
to_sql_Partial(d, s) ==
  IF ~d.exists
    THEN [db |-> [exists |-> TRUE, unique |-> FALSE, cols |-> FrameColumns(s),
                  rows |-> s],
          raised |-> FALSE]
  ELSE IF ~(FrameColumns(s) \subseteq d.cols)
    THEN [db |-> d, raised |-> TRUE]
  ELSE IF d.unique /\ (UrlsOf(s) \cap UrlsOf(d.rows) # {}
                        \/ Cardinality(UrlsOf(s)) # Len(s))
    THEN [db |-> [d EXCEPT !.rows = d.rows \o AcceptedPrefix(s, UrlsOf(d.rows))],
          raised |-> TRUE]
  ELSE [db |-> [d EXCEPT !.rows = d.rows \o s], raised |-> FALSE]

\* df.to_sql("articles", if_exists="append"): one transaction.  A missing
\* table is created from the frame (its columns, no UNIQUE constraint); on
\* an existing table a column of the frame that the table lacks raises
\* OperationalError, and on a table with UNIQUE(url) a conflicting row
\* raises IntegrityError; the transaction is then rolled back.
to_sql(d, s) ==
  IF ~d.exists
    THEN [db |-> [exists |-> TRUE, unique |-> FALSE, cols |-> FrameColumns(s),
                  rows |-> s],
          raised |-> FALSE]
  ELSE IF ~(FrameColumns(s) \subseteq d.cols)
    THEN [db |-> d, raised |-> TRUE]
  ELSE IF d.unique /\ (UrlsOf(s) \cap UrlsOf(d.rows) # {}
                        \/ Cardinality(UrlsOf(s)) # Len(s))
    THEN [db |-> d, raised |-> TRUE]
  ELSE [db |-> [d EXCEPT !.rows = d.rows \o s], raised |-> FALSE]

\* A faulty variant of insert_prepare: without a table the function gives
\* up and returns 0
insert_prepare_MissingTableReturns(d, batch) ==
  IF batch = <<>> \/ ~d.exists THEN [done |-> TRUE, frame |-> <<>>]
  ELSE LET s == filter_existing(drop_duplicates_url(dropna_url(batch)),
                                read_existing(d))
       IN  [done |-> s = <<>>, frame |-> s]

\* A faulty variant of insert_prepare: no early return on an empty frame
insert_prepare_NoEmptyCheck(d, batch) ==
  IF batch = <<>> THEN [done |-> TRUE, frame |-> <<>>]
  ELSE [done |-> FALSE,
        frame |-> filter_existing(drop_duplicates_url(dropna_url(batch)),
                                  read_existing(d))]

\* The part of insert_articles before the append: lines 34-47.
\* done: the function has returned 0; otherwise frame is what is appended.
insert_prepare(d, batch) ==
  IF batch = <<>> THEN [done |-> TRUE, frame |-> <<>>]
  ELSE LET s == filter_existing(drop_duplicates_url(dropna_url(batch)),
                                read_existing(d))
       IN  [done |-> s = <<>>, frame |-> s]

\* Lines 49-50: append and return len(df); an exception of to_sql propagates
insert_append(d, s) ==
  LET w == to_sql(d, s)
  IN  [db |-> w.db, raised |-> w.raised, ret |-> IF w.raised THEN 0 ELSE Len(s)]

\* A faulty variant of insert_articles: the count returned is the batch's size
insert_articles_CountsBatch(d, batch) ==
  LET p == insert_prepare(d, batch)
  IN  IF p.done THEN [db |-> d, raised |-> FALSE, ret |-> 0]
      ELSE [insert_append(d, p.frame) EXCEPT !.ret = Len(batch)]

\* insert_articles(engine, rows), run without interruption
insert_articles(d, batch) ==
  LET p == insert_prepare(d, batch)
  IN  IF p.done THEN [db |-> d, raised |-> FALSE, ret |-> 0]
      ELSE insert_append(d, p.frame)

-----------------------------------------------------------------------------
(* Idle values of the variable groups a specification does not use *)

MainIdle ==
  /\ pc = "idle" /\ df = <<>> /\ idx = 0 /\ rows = <<>> /\ runs = 0
  /\ lastOutcome = "none" /\ lastAdded = 0 /\ lastReported = 0
  /\ dbAfterFirst = NoTable /\ trail = <<>>
WorldIdle   == web = <<>> /\ nlpLoaded = TRUE
FetchIdle ==
  /\ fArg = <<>> /\ fLimit = 0 /\ fFeeds = <<>> /\ fIdx = 0 /\ fRows = <<>>
  /\ fPc = "idle" /\ fResult = <<>>
ExtractIdle == xOut = <<>> /\ xPc = "idle" /\ xResult = <<>> /\ xTried = <<>>
FilterIdle  == qText = <<>> /\ qPc = "idle" /\ qResult = FALSE
InsertIdle  == iBatch = <<>> /\ iBefore = NoTable /\ iPc = "idle" /\ iRet = 0
ConcIdle    == cBatch = <<>> /\ cPc = <<>> /\ cDf = <<>> /\ cRet = <<>>
EnrichIdle  == eIn = <<>> /\ eEntities = <<>> /\ eScore = "unset"
SourceIdle  == nTitle = <<>> /\ nNetloc = <<>> /\ nPc = "idle" /\ nName = <<>>

\* All sequences over S of length at most n
BSeq(S, n) == UNION {[1..k -> S] : k \in 0..n}

-----------------------------------------------------------------------------
(* insert_articles as a function of the store and the batch *)

MaxBatch == 3
MaxStore == 2

InsertUrls == {"a", "b", ""}
TitleX == <<"x">>
TitleY == <<"y">>
TitleS == <<"s">>

BatchRow(url, title) == MkRow(<<"s">>, title, url, 0, <<>>, NoneVal, NoneVal)

BatchRows  == {BatchRow(u, t) : u \in InsertUrls \cup {NoneVal}, t \in {TitleX, TitleY}}
StoredRows == {BatchRow(u, TitleS) : u \in InsertUrls}

\* Stores that ingestion runs can leave: in a table made by init_db (UNIQUE)
\* the URLs are distinct; a table made by the first append has no constraint
InsertStores ==
  {NoTable} \cup
  {[exists |-> TRUE, unique |-> TRUE, cols |-> ARTICLE_COLUMNS, rows |-> s] :
     s \in {t \in BSeq(StoredRows, MaxStore) : Cardinality(UrlsOf(t)) = Len(t)}} \cup
  {[exists |-> TRUE, unique |-> FALSE, cols |-> DOMAIN BatchRow("a", TitleS), rows |-> s] :
     s \in BSeq(StoredRows, MaxStore)}

\* 5 candidates, 2 URLs already stored, 1 duplicate within the batch
ExampleStore ==
  [exists |-> TRUE, unique |-> TRUE, cols |-> ARTICLE_COLUMNS,
   rows |-> <<BatchRow("a", TitleS), BatchRow("b", TitleS)>>]
ExampleBatch ==
  <<BatchRow("a", TitleX), BatchRow("c", TitleX), BatchRow("b", TitleX),
    BatchRow("c", TitleY), BatchRow("d", TitleX)>>

InitInsert ==
  /\ \/ db \in InsertStores /\ iBatch \in BSeq(BatchRows, MaxBatch)
     \/ db = ExampleStore /\ iBatch = ExampleBatch
  /\ iBefore = db /\ iPc = "call" /\ iRet = 0
  /\ WorldIdle /\ MainIdle /\ FetchIdle /\ ExtractIdle /\ FilterIdle /\ ConcIdle /\ EnrichIdle /\ SourceIdle

InsertCall ==
  /\ iPc = "call"
  /\ LET r == insert_articles(db, iBatch)
     IN  /\ db' = r.db
         /\ iRet' = r.ret
         /\ iPc' = IF r.raised THEN "raised" ELSE "returned"
  /\ UNCHANGED <<iBatch, iBefore, worldVars, mainVars, fetchVars, extractVars,
                 filterVars, concVars, enrichVars, sourceVars>>

NextInsert == InsertCall

SpecInsert == InitInsert /\ [][NextInsert]_vars

\* The rows the call appended
Added == SubSeq(db.rows, Len(iBefore.rows) + 1, Len(db.rows))

\* The distinct non-missing URLs of the batch that the store did not hold
NewUrls == {u \in UrlsOf(iBatch) : u # NoneVal /\ u \notin UrlsOf(iBefore.rows)}

FirstIndex(u) == CHOOSE i \in DOMAIN iBatch :
                   /\ iBatch[i].url = u
                   /\ \A j \in 1..(i - 1) : iBatch[j].url # u

\* C4: insert_articles adds exactly one row, the first occurrence in the
\* batch, for each distinct non-missing URL of the batch that is not in the
\* store, adds nothing else, and returns the number of rows it added.
C4_InsertsExactlyNew ==
  iPc # "call" =>
    /\ iPc = "returned"
    /\ Len(db.rows) >= Len(iBefore.rows)
    /\ SubSeq(db.rows, 1, Len(iBefore.rows)) = iBefore.rows
    /\ UrlsOf(Added) = NewUrls
    /\ Len(Added) = Cardinality(NewUrls)
    /\ \A k \in DOMAIN Added : Added[k] = iBatch[FirstIndex(Added[k].url)]
    /\ iRet = Len(Added)

\* The example of the specification: 2 rows added, 2 returned
C4_Witness ==
  /\ iPc = "returned" /\ iBatch = ExampleBatch /\ iBefore = ExampleStore
  /\ iRet = 2 /\ Len(db.rows) = 4

AllPresent ==
  \A i \in DOMAIN iBatch :
    iBatch[i].url = NoneVal \/ iBatch[i].url \in UrlsOf(iBefore.rows)

\* C6: insert_articles returns 0 without raising and leaves the store as it
\* was when the batch is empty or every URL of the batch is already stored.
C6_ZeroOnEmptyOrDuplicate ==
  (iPc # "call" /\ AllPresent) => (iPc = "returned" /\ iRet = 0 /\ db = iBefore)

\* A non-empty batch all of whose URLs are stored has returned 0
C6_Witness ==
  /\ iPc = "returned" /\ Len(iBatch) = 2 /\ iRet = 0
  /\ \A i \in DOMAIN iBatch : iBatch[i].url \in UrlsOf(iBefore.rows)

\* The distinct non-missing URLs of the batch
BatchUrls == {u \in UrlsOf(iBatch) : u # NoneVal}

\* C28: when the query for the stored URLs fails (no articles table), the
\* call does not raise; the store is taken to hold no URL, so one row, the
\* first occurrence, of every distinct non-missing URL of the batch is
\* appended, and that number is returned.
C28_FailedQueryIsSwallowed ==
  (iPc # "call" /\ ~iBefore.exists) =>
    /\ iPc = "returned"
    /\ UrlsOf(db.rows) = BatchUrls
    /\ Len(db.rows) = Cardinality(BatchUrls)
    /\ \A k \in DOMAIN db.rows : db.rows[k] = iBatch[FirstIndex(db.rows[k].url)]
    /\ iRet = Cardinality(BatchUrls)

\* Without a table, a batch with a missing URL and a repeated URL has left
\* the first row of the repeated URL in a new table
C28_Witness ==
  /\ iPc = "returned" /\ iBefore = NoTable
  /\ iBatch = <<BatchRow("a", TitleX), BatchRow(NoneVal, TitleX), BatchRow("a", TitleY)>>
  /\ db.exists /\ db.rows = <<BatchRow("a", TitleX)>> /\ iRet = 1

(* The commit of either entry point, on a fresh or an initialised store *)

\* The row dict that ingest.py builds (lines 137-146): the body is under
\* the key content
VariantRow(url, title) ==
  [source |-> <<"s">>, title |-> title, url |-> url, published_at |-> 0,
   content |-> <<>>, entities |-> NoneVal, sentiment |-> NoneVal, topics |-> NoneVal]

\* The batches an entry point hands over: rows of scripts/ingest.py, or
\* rows of ingest.py
CommitBatches ==
  BSeq({BatchRow(u, TitleX) : u \in InsertUrls}, MaxBatch) \cup
  BSeq({VariantRow(u, TitleX) : u \in InsertUrls}, MaxBatch)

\* migrate_add_content.py: ALTER TABLE articles ADD COLUMN content, when
\* the table lacks that column; without a table the ALTER fails
migrate_add_content(d) ==
  IF d.exists /\ "content" \notin d.cols
    THEN [d EXCEPT !.cols = @ \cup {"content"}]
  ELSE d

InitCommit ==
  /\ db \in {NoTable, init_db(NoTable)}
  /\ iBatch \in CommitBatches
  /\ iBefore = db /\ iPc = "call" /\ iRet = 0
  /\ WorldIdle /\ MainIdle /\ FetchIdle /\ ExtractIdle /\ FilterIdle /\ ConcIdle
  /\ EnrichIdle /\ SourceIdle

\* The migration script is run, before or after the commit
MigrateAddContent ==
  /\ db' = migrate_add_content(db)
  /\ UNCHANGED <<worldVars, mainVars, fetchVars, extractVars, filterVars,
                 insertVars, concVars, enrichVars, sourceVars>>

NextCommit == InsertCall \/ MigrateAddContent

SpecCommit == InitCommit /\ [][NextCommit]_vars

\* C25: every row handed to insert_articles has only keys that are columns
\* of the table init_db creates, the body under text, and the append does
\* not fail on an unknown column.
C25_RowKeysAreColumns ==
  iPc # "call" =>
    /\ \A i \in DOMAIN iBatch :
         DOMAIN iBatch[i] \subseteq ARTICLE_COLUMNS /\ "text" \in DOMAIN iBatch[i]
    /\ iPc = "returned"

-----------------------------------------------------------------------------
(* init_db as an operation on the store: any process may run it at any time *)

InitDb ==
  /\ db' = init_db(db)
  /\ UNCHANGED <<worldVars, mainVars, fetchVars, extractVars, filterVars,
                 insertVars, concVars, enrichVars, sourceVars>>

-----------------------------------------------------------------------------
(* Two ingestion runs inside insert_articles at the same time *)

MaxConcBatch == 2

Runs == {"A", "B"}
ConcUrls == {"a", "b"}

\* The rows of run r carry r as their title, so that a stored row shows
\* which run appended it
ConcRows(r) == {BatchRow(u, <<r>>) : u \in ConcUrls}

NotReturned == [kind |-> "none", n |-> 0]

InitConc ==
  /\ db = NoTable
  /\ cBatch \in {b \in [Runs -> BSeq(ConcRows("A") \cup ConcRows("B"), MaxConcBatch)] :
                   \A r \in Runs : \A i \in DOMAIN b[r] : b[r][i] \in ConcRows(r)}
  /\ cPc = [r \in Runs |-> "start"]
  /\ cDf = [r \in Runs |-> <<>>]
  /\ cRet = [r \in Runs |-> NotReturned]
  /\ WorldIdle /\ MainIdle /\ FetchIdle /\ ExtractIdle /\ FilterIdle /\ InsertIdle /\ EnrichIdle /\ SourceIdle

\* Lines 34-47 of run r: the frame is cleaned and the stored URLs are
\* read and subtracted
ConcPrecheck(r) ==
  /\ cPc[r] = "start"
  /\ LET p == insert_prepare(db, cBatch[r])
     IN  /\ cDf' = [cDf EXCEPT ![r] = p.frame]
         /\ cPc' = [cPc EXCEPT ![r] = IF p.done THEN "done" ELSE "checked"]
         /\ cRet' = [cRet EXCEPT ![r] = IF p.done THEN [kind |-> "returned", n |-> 0]
                                         ELSE NotReturned]
  /\ UNCHANGED <<db, cBatch, worldVars, mainVars, fetchVars, extractVars,
                 filterVars, insertVars, enrichVars, sourceVars>>

\* Lines 49-50 of run r: the append, against the store as it is by now
ConcAppend(r) ==
  /\ cPc[r] = "checked"
  /\ LET w == insert_append(db, cDf[r])
     IN  /\ db' = w.db
         /\ cRet' = [cRet EXCEPT ![r] = [kind |-> IF w.raised THEN "raised" ELSE "returned",
                                         n |-> w.ret]]
  /\ cPc' = [cPc EXCEPT ![r] = "done"]
  /\ UNCHANGED <<cBatch, cDf, worldVars, mainVars, fetchVars, extractVars,
                 filterVars, insertVars, enrichVars, sourceVars>>

\* scripts/ingest.py lines 174-178 of run r: insert_articles was called
\* inside try/except Exception, so whether it returned or raised, main
\* prints a line and ends
ConcFinish(r) ==
  /\ cPc[r] = "done"
  /\ cPc' = [cPc EXCEPT ![r] = "ended"]
  /\ UNCHANGED <<db, cBatch, cDf, cRet, worldVars, mainVars, fetchVars, extractVars,
                 filterVars, insertVars, enrichVars, sourceVars>>

NextConc ==
  \/ InitDb
  \/ \E r \in Runs : ConcPrecheck(r)
  \/ \E r \in Runs : ConcAppend(r)
  \/ \E r \in Runs : ConcFinish(r)

SpecConc == InitConc /\ [][NextConc]_vars

\* C2: under every interleaving of two runs inside insert_articles, the
\* store never holds two rows with the same url.
C2_NoDuplicateUrl ==
  \A i, j \in DOMAIN db.rows : i # j => db.rows[i].url # db.rows[j].url

\* C3: a uniqueness violation at the append is taken as "already present":
\* the run does not raise and the other new rows of its batch are stored.
C3_ConflictIsNotFatal ==
  \A r \in Runs :
    cPc[r] = "done" =>
      /\ cRet[r].kind = "returned"
      /\ UrlsOf(cDf[r]) \subseteq UrlsOf(db.rows)

\* C21: every step of the ingestion core (the pre-check and the append of
\* either run, init_db) leaves each stored row in its place with all its
\* field values; rows are only ever appended.
C21_RowsOnlyAppended ==
  [][/\ Len(db'.rows) >= Len(db.rows)
     /\ SubSeq(db'.rows, 1, Len(db.rows)) = db.rows]_vars

\* Run A stored its row for url a; run B then ingested url a with another
\* title and ended, and the row of run A is still the first row
C21_Witness ==
  /\ \A r \in Runs : cPc[r] = "done"
  /\ cRet["A"] = [kind |-> "returned", n |-> 1]
  /\ \E i \in DOMAIN cBatch["B"] : cBatch["B"][i].url = "a"
  /\ Len(db.rows) >= 1 /\ db.rows[1] = BatchRow("a", <<"A">>)

\* C26: a step in which the append of insert_articles fails leaves the
\* stored rows as they were, and the run then ends in main's handler: no
\* run is left with an uncaught exception.
C26_FailedAppendStoresNothing ==
  [][\A r \in Runs :
       /\ (cRet[r].kind # "raised" /\ cRet'[r].kind = "raised") => db' = db
       /\ (cRet[r].kind = "raised" /\ cPc'[r] # cPc[r]) => cPc'[r] = "ended"
       /\ cPc'[r] \in {"start", "checked", "done", "ended"}]_vars

\* The append of run B failed on a batch of two rows after run A stored
\* url a; run B ended and the store holds the row of run A only
C26_Witness ==
  /\ cRet["B"].kind = "raised" /\ cPc["B"] = "ended" /\ Len(cDf["B"]) = 2
  /\ cDf["B"][1].url = "b"
  /\ db.rows = <<BatchRow("a", <<"A">>)>>

-----------------------------------------------------------------------------
(* Article extractor: scrapers/news_scraper.py, fetch_article_text *)

\* resp2.text[:5000]
RAW_PREFIX == 5000

GasText   == <<"g", "a", "s">>
CatText   == <<"c", "a", "t">>
BlankText == <<" ", " ">>
ShortHtml == <<"<", "p", ">">>
LongHtml  == [i \in 1..(RAW_PREFIX + 1) |-> "x"]

Chars == {"g", "a", "s", "c", "t", " ", "<", "p", ">", "x"}

Ok(text) == [kind |-> "ok", text |-> text]
Raises   == [kind |-> "raise", text |-> <<>>]

\* What each strategy meets for one URL: an exception anywhere in its try
\* block, or the text it extracts / downloads
Strategy1Outcomes == {Raises, Ok(<<>>), Ok(BlankText), Ok(GasText)}
Strategy2Outcomes == {Raises, Ok(<<>>), Ok(BlankText), Ok(CatText)}
Strategy3Outcomes == {Raises, Ok(<<>>), Ok(ShortHtml), Ok(LongHtml)}

ExtractOutcomes ==
  [s1 : Strategy1Outcomes, s2 : Strategy2Outcomes, s3 : Strategy3Outcomes]

\* `if art.text and len(art.text.strip()) > 0` inside the try block
TextFound(o) == o.kind = "ok" /\ o.text # <<>> /\ NonBlank(o.text)

Returned(text) == [kind |-> "returned", text |-> text]

\* A faulty variant of strategy3: the last GET is not guarded
strategy3_Unguarded(o) ==
  IF o.kind = "raise" THEN [kind |-> "raised", text |-> <<>>]
  ELSE Returned(SubSeq(o.text, 1, Min(Len(o.text), RAW_PREFIX)))

\* Lines 255-260: one more GET, the first 5000 characters, "" on exception
strategy3(o) ==
  IF o.kind = "raise" THEN Returned(<<>>)
  ELSE Returned(SubSeq(o.text, 1, Min(Len(o.text), RAW_PREFIX)))

\* fetch_article_text(url), given what its three strategies meet
fetch_article_text(o) ==
  IF TextFound(o.s1) THEN Returned(o.s1.text)
  ELSE IF TextFound(o.s2) THEN Returned(o.s2.text)
  ELSE strategy3(o.s3)

\* ingest.py (the variant entry point): extract_full_content
extract_full_content(o) == IF o.kind = "raise" THEN <<>> ELSE Strip(o.text)

InitExtract ==
  /\ xOut \in ExtractOutcomes
  /\ xPc = "s1" /\ xResult = <<>> /\ xTried = <<>>
  /\ db = NoTable
  /\ WorldIdle /\ MainIdle /\ FetchIdle /\ FilterIdle /\ InsertIdle /\ ConcIdle /\ EnrichIdle /\ SourceIdle

\* A faulty variant of ExtractTry1: the second strategy is run although
\* the first found text
ExtractTry1_FallsThrough ==
  /\ xPc = "s1"
  /\ xTried' = Append(xTried, "s1")
  /\ xPc' = "s2"
  /\ xResult' = IF TextFound(xOut.s1) THEN xOut.s1.text ELSE xResult
  /\ UNCHANGED <<xOut, storeVars, worldVars, mainVars, fetchVars, filterVars,
                 insertVars, concVars, enrichVars, sourceVars>>

\* Lines 232-243
ExtractTry1 ==
  /\ xPc = "s1"
  /\ xTried' = Append(xTried, "s1")
  /\ IF TextFound(xOut.s1)
       THEN xPc' = "returned" /\ xResult' = xOut.s1.text
       ELSE xPc' = "s2" /\ xResult' = xResult
  /\ UNCHANGED <<xOut, storeVars, worldVars, mainVars, fetchVars, filterVars,
                 insertVars, concVars, enrichVars, sourceVars>>

\* Lines 245-253
ExtractTry2 ==
  /\ xPc = "s2"
  /\ xTried' = Append(xTried, "s2")
  /\ IF TextFound(xOut.s2)
       THEN xPc' = "returned" /\ xResult' = xOut.s2.text
       ELSE xPc' = "s3" /\ xResult' = xResult
  /\ UNCHANGED <<xOut, storeVars, worldVars, mainVars, fetchVars, filterVars,
                 insertVars, concVars, enrichVars, sourceVars>>

\* Lines 255-260
ExtractTry3 ==
  /\ xPc = "s3"
  /\ xTried' = Append(xTried, "s3")
  /\ LET r == strategy3(xOut.s3)
     IN  xPc' = r.kind /\ xResult' = r.text
  /\ UNCHANGED <<xOut, storeVars, worldVars, mainVars, fetchVars, filterVars,
                 insertVars, concVars, enrichVars, sourceVars>>

NextExtract == ExtractTry1 \/ ExtractTry2 \/ ExtractTry3

SpecExtract == InitExtract /\ [][NextExtract]_vars

\* C9: fetch_article_text returns a string and never raises, whatever its
\* three strategies meet; when strategies 1 and 2 fail and the final GET
\* fails too, it returns the empty string.
C9_ExtractorNeverRaises ==
  /\ xPc \in {"s1", "s2", "s3", "returned"}
  /\ fetch_article_text(xOut).kind = "returned"
  /\ xPc = "returned" =>
       /\ \A i \in DOMAIN xResult : xResult[i] \in Chars
       /\ xResult = fetch_article_text(xOut).text
       /\ (~TextFound(xOut.s1) /\ ~TextFound(xOut.s2) /\ xOut.s3.kind = "raise")
             => xResult = <<>>

\* Strategies 1 and 2 raised, the final GET raised, "" was returned
C9_Witness ==
  /\ xPc = "returned" /\ xTried = <<"s1", "s2", "s3">>
  /\ xOut.s1.kind = "raise" /\ xOut.s2.kind = "raise" /\ xOut.s3.kind = "raise"
  /\ xResult = <<>>

\* A strategy that raised, or whose text is empty or only whitespace
NoText(o) == o.kind = "raise" \/ Strip(o.text) = <<>>

\* C19: fetch_article_text runs its strategies in the order 1, 2, 3;
\* strategy 2 runs only when strategy 1 raised or gave empty or blank text,
\* strategy 3 only when both did; nothing runs after a strategy found
\* text, and the text of the first strategy that found one is returned.
C19_StrategiesInOrder ==
  /\ Len(xTried) <= 3
  /\ \A i \in DOMAIN xTried : xTried[i] = <<"s1", "s2", "s3">>[i]
  /\ Len(xTried) >= 2 => NoText(xOut.s1)
  /\ Len(xTried) >= 3 => NoText(xOut.s1) /\ NoText(xOut.s2)
  /\ xPc = "returned" =>
       /\ ~NoText(xOut.s1) => xTried = <<"s1">> /\ xResult = xOut.s1.text
       /\ (NoText(xOut.s1) /\ ~NoText(xOut.s2)) =>
            xTried = <<"s1", "s2">> /\ xResult = xOut.s2.text
       /\ (NoText(xOut.s1) /\ NoText(xOut.s2)) =>
            /\ xTried = <<"s1", "s2", "s3">>
            /\ xOut.s3.kind = "ok" =>
                 xResult = SubSeq(xOut.s3.text, 1, Min(Len(xOut.s3.text), RAW_PREFIX))

\* Strategy 1 gave blank text, strategy 2 found text: it was returned and
\* strategy 3 did not run
C19_Witness ==
  /\ xPc = "returned" /\ xOut.s1 = Ok(BlankText) /\ xOut.s2 = Ok(CatText)
  /\ xTried = <<"s1", "s2">> /\ xResult = CatText

-----------------------------------------------------------------------------
(* Feed fetcher: scrapers/news_scraper.py *)

\* A date field the entry does not carry, and one that does not parse.
\* Dates are ages in days before the run; "now" is age 0.
NoDate  == -1
BadDate == -2
Now     == 0

\* A date field holds a date when it is present and parses
Usable(d) == d # NoDate /\ d # BadDate

\* A faulty variant of parse_date: an entry without a usable date gets none
parse_date_NoFallback(e) ==
  IF Usable(e.published_parsed) THEN e.published_parsed
  ELSE IF Usable(e.updated_parsed) THEN e.updated_parsed
  ELSE IF Usable(e.published) THEN e.published
  ELSE IF Usable(e.updated) THEN e.updated
  ELSE NoDate

\* _parse_date(entry): the structured fields published_parsed and
\* updated_parsed, then the free-text fields published and updated, each
\* skipped when absent or failing to parse, then the current time
parse_date(e) ==
  IF Usable(e.published_parsed) THEN e.published_parsed
  ELSE IF Usable(e.updated_parsed) THEN e.updated_parsed
  ELSE IF Usable(e.published) THEN e.published
  ELSE IF Usable(e.updated) THEN e.updated
  ELSE Now

\* entry.get(key, "") or ""
OrEmptyText(v) == IF v = NoneText THEN <<>> ELSE v
OrEmptyUrl(v)  == IF v = NoneVal THEN "" ELSE v

\* str.replace(pat, ""): every occurrence, left to right
RECURSIVE RemoveAll(_, _)
RemoveAll(s, pat) ==
  IF Len(s) < Len(pat) THEN s
  ELSE IF SubSeq(s, 1, Len(pat)) = pat
    THEN RemoveAll(SubSeq(s, Len(pat) + 1, Len(s)), pat)
  ELSE <<Head(s)>> \o RemoveAll(Tail(s), pat)

\* The feed addresses of the model and urlparse(address).netloc
FeedUrls == {"feedA", "feedB"}
Netloc(f) ==
  IF f = "feedA" THEN <<"w", "w", "w", ".", "a", ".", "i", "o">>
  ELSE <<"b", ".", "i", "o">>

\* The catalog of feeds fetched when none is given (abridged)
DEFAULT_FEEDS == <<"feedA", "feedB">>

\* _get_source_name, given the title of the parsed feed (NoneText when it
\* has none) and the netloc of the feed address: netloc.replace("www.", "")
source_name(title, netloc) ==
  IF title # NoneText THEN title
  ELSE RemoveAll(netloc, <<"w", "w", "w", ".">>)

\* _get_source_name(parsed, fallback_url)
get_source_name(doc, f) == source_name(doc.title, Netloc(f))

\* The dict appended for one entry: lines 204-210
entry_row(source, e) ==
  [source |-> source, title |-> OrEmptyText(e.title), url |-> OrEmptyUrl(e.link),
   published_at |-> parse_date(e)]

\* A faulty variant of Capped: one entry more than the cap is taken
Capped_OneMore(entries, limit) == SubSeq(entries, 1, Min(limit + 1, Len(entries)))

\* entries[:limit_per_feed], limit_per_feed >= 0
Capped(entries, limit) == SubSeq(entries, 1, Min(limit, Len(entries)))

\* A faulty variant of feed_step: a failing feed ends the whole fetch
feed_step_Aborts(acc, f, limit, w) ==
  IF w[f].status = "fail" THEN [rows |-> acc, raised |-> TRUE]
  ELSE LET src == get_source_name(w[f], f)
           es  == Capped(w[f].entries, limit)
       IN  [rows |-> acc \o [k \in 1..Len(es) |-> entry_row(src, es[k])],
            raised |-> FALSE]

\* One iteration of the loop over feeds, lines 198-214: a feed whose parse
\* or network call fails is reported and skipped
feed_step(acc, f, limit, w) ==
  IF w[f].status = "fail" THEN [rows |-> acc, raised |-> FALSE]
  ELSE LET src == get_source_name(w[f], f)
           es  == Capped(w[f].entries, limit)
       IN  [rows |-> acc \o [k \in 1..Len(es) |-> entry_row(src, es[k])],
            raised |-> FALSE]

Reverse(s) == [i \in 1..Len(s) |-> s[Len(s) + 1 - i]]

\* A faulty variant of fetch_finish: the last row of each url is kept
fetch_finish_KeepsLast(acc) ==
  IF acc = <<>> THEN <<>>
  ELSE Reverse(drop_duplicates_url(Reverse(
         SelectSeq(acc, LAMBDA r : r.url # NoneVal /\ r.source # NoneText))))

\* Lines 217-226: rows without url or source are dropped, then the first
\* row of each url is kept
fetch_finish(acc) ==
  IF acc = <<>> THEN <<>>
  ELSE drop_duplicates_url(
         SelectSeq(acc, LAMBDA r : r.url # NoneVal /\ r.source # NoneText))

\* The feeds argument: None (given = FALSE) or a list
NoFeedsArg == [given |-> FALSE, list |-> <<>>]
FeedsArg(l) == [given |-> TRUE, list |-> l]

\* A faulty variant of feeds_or_default: an empty list is fetched as given
feeds_or_default_NoneOnly(arg) ==
  IF ~arg.given THEN DEFAULT_FEEDS ELSE arg.list

\* feeds = feeds or DEFAULT_FEEDS
feeds_or_default(arg) ==
  IF ~arg.given \/ arg.list = <<>> THEN DEFAULT_FEEDS ELSE arg.list

RECURSIVE FetchLoop(_, _, _, _)
FetchLoop(acc, feeds, limit, w) ==
  IF feeds = <<>> THEN [rows |-> acc, raised |-> FALSE]
  ELSE LET st == feed_step(acc, Head(feeds), limit, w)
       IN  IF st.raised THEN st ELSE FetchLoop(st.rows, Tail(feeds), limit, w)

\* fetch_rss_entries(feeds, limit_per_feed), run to its end
fetch_rss_entries(arg, limit, w) ==
  LET l == FetchLoop(<<>>, feeds_or_default(arg), limit, w)
  IN  IF l.raised THEN l ELSE [rows |-> fetch_finish(l.rows), raised |-> FALSE]

(* The fetcher step by step, over every small web *)

MaxEntries == 2
MaxFeeds   == 2

FeedTitle(f) == IF f = "feedA" THEN <<"A">> ELSE NoneText

\* A feed item: its link, title and the four date fields _parse_date reads
EntryU(link, title, parsed, updated_parsed, published, updated) ==
  [link |-> link, title |-> title, published_parsed |-> parsed,
   updated_parsed |-> updated_parsed, published |-> published, updated |-> updated]

\* A feed item that carries no update date
Entry(link, title, parsed, published) ==
  EntryU(link, title, parsed, NoDate, published, NoDate)

\* Feed items with links a and b, and one without a link and without a
\* date that parses
FetchEntries == {Entry("a", <<"t">>, 2, NoDate),
                 EntryU("b", <<"t">>, BadDate, NoDate, BadDate, 2),
                 Entry(NoneVal, <<"t">>, NoDate, BadDate)}

FailedDoc(f) == [status |-> "fail", title |-> FeedTitle(f), entries |-> <<>>]
OkDoc(f, es) == [status |-> "ok", title |-> FeedTitle(f), entries |-> es]

\* What a fetch of feed f can deliver: feedA up to MaxEntries items, feedB
\* one item fewer
FetchDocs(f) ==
  {FailedDoc(f)} \cup
  {OkDoc(f, es) :
     es \in BSeq(FetchEntries, IF f = "feedA" THEN MaxEntries ELSE MaxEntries - 1)}

\* A feed whose server accepts the connection and never answers
HungDoc(f) == [status |-> "hang", title |-> FeedTitle(f), entries |-> <<>>]

\* What a fetch of feed f can meet when servers may hang
LiveDocs(f) == FetchDocs(f) \cup {HungDoc(f)}

InitFetch ==
  /\ \E da \in FetchDocs("feedA"), dbb \in FetchDocs("feedB") :
       web = [f \in FeedUrls |-> IF f = "feedA" THEN da ELSE dbb]
  /\ fArg \in {NoFeedsArg} \cup {FeedsArg(l) : l \in BSeq(FeedUrls, MaxFeeds)}
  /\ fLimit \in 0..MaxEntries
  /\ fFeeds = <<>> /\ fIdx = 0 /\ fRows = <<>> /\ fPc = "start" /\ fResult = <<>>
  /\ db = NoTable /\ nlpLoaded = TRUE
  /\ MainIdle /\ ExtractIdle /\ FilterIdle /\ InsertIdle /\ ConcIdle /\ EnrichIdle /\ SourceIdle

\* Lines 195-196
FetchStart ==
  /\ fPc = "start"
  /\ fFeeds' = feeds_or_default(fArg)
  /\ fIdx' = 1 /\ fRows' = <<>> /\ fPc' = "loop"
  /\ UNCHANGED <<fArg, fLimit, fResult, storeVars, worldVars, mainVars,
                 extractVars, filterVars, insertVars, concVars, enrichVars, sourceVars>>

\* Lines 198-214, one feed.  feedparser.parse(url) is called without a
\* timeout (line 200): against a server that never answers it does not
\* return, so the step is never taken
FetchFeed ==
  /\ fPc = "loop" /\ fIdx <= Len(fFeeds)
  /\ web[fFeeds[fIdx]].status # "hang"
  /\ LET st == feed_step(fRows, fFeeds[fIdx], fLimit, web)
     IN  /\ fRows' = st.rows
         /\ fPc' = IF st.raised THEN "raised" ELSE "loop"
         /\ fIdx' = IF st.raised THEN fIdx ELSE fIdx + 1
  /\ UNCHANGED <<fArg, fLimit, fFeeds, fResult, storeVars, worldVars, mainVars,
                 extractVars, filterVars, insertVars, concVars, enrichVars, sourceVars>>

\* Lines 217-226
FetchFinish ==
  /\ fPc = "loop" /\ fIdx > Len(fFeeds)
  /\ fResult' = fetch_finish(fRows)
  /\ fPc' = "returned"
  /\ UNCHANGED <<fArg, fLimit, fFeeds, fIdx, fRows, storeVars, worldVars, mainVars,
                 extractVars, filterVars, insertVars, concVars, enrichVars, sourceVars>>

NextFetch == FetchStart \/ FetchFeed \/ FetchFinish

SpecFetch == InitFetch /\ [][NextFetch]_vars

\* The fetcher when servers may hang: the call runs on whenever it can
InitFetchLive ==
  /\ \E da \in LiveDocs("feedA"), dbb \in LiveDocs("feedB") :
       web = [f \in FeedUrls |-> IF f = "feedA" THEN da ELSE dbb]
  /\ fArg \in {NoFeedsArg} \cup {FeedsArg(l) : l \in BSeq(FeedUrls, MaxFeeds)}
  /\ fLimit \in 0..MaxEntries
  /\ fFeeds = <<>> /\ fIdx = 0 /\ fRows = <<>> /\ fPc = "start" /\ fResult = <<>>
  /\ db = NoTable /\ nlpLoaded = TRUE
  /\ MainIdle /\ ExtractIdle /\ FilterIdle /\ InsertIdle /\ ConcIdle /\ EnrichIdle /\ SourceIdle

SpecFetchLive == InitFetchLive /\ [][NextFetch]_vars /\ WF_vars(NextFetch)

\* C22: although one feed hangs, fetch_rss_entries eventually returns.
C22_HungFeedDoesNotStall == <>(fPc = "returned")

\* The capped entries of the i-th feed fetched, if that feed did not fail
OkRowsOf(i) ==
  LET f == fFeeds[i]
  IN  IF web[f].status = "ok"
        THEN [k \in 1..Min(fLimit, Len(web[f].entries)) |->
                entry_row(get_source_name(web[f], f), web[f].entries[k])]
        ELSE <<>>

RECURSIVE OkRowsUpTo(_)
OkRowsUpTo(n) == IF n = 0 THEN <<>> ELSE OkRowsUpTo(n - 1) \o OkRowsOf(n)

\* C7: whichever feeds fail, fetch_rss_entries does not raise, goes on to
\* every later feed, and returns the entries of all feeds that did not fail
\* (capped per feed, the first row of each url).
C7_BadFeedsAreSkipped ==
  /\ fPc # "raised"
  /\ fetch_rss_entries(fArg, fLimit, web).raised = FALSE
  /\ fPc = "returned" =>
       /\ fIdx = Len(fFeeds) + 1
       /\ \A i \in DOMAIN fFeeds : \A k \in DOMAIN OkRowsOf(i) :
            OkRowsOf(i)[k].url \in UrlsOf(fResult)
       /\ fResult = drop_duplicates_url(OkRowsUpTo(Len(fFeeds)))
       /\ fResult = fetch_rss_entries(fArg, fLimit, web).rows

\* A failing feed came before a feed that delivered entries, and the
\* fetch returned those entries
C7_Witness ==
  /\ fPc = "returned" /\ Len(fFeeds) = 2
  /\ web[fFeeds[1]].status = "fail" /\ web[fFeeds[2]].status = "ok"
  /\ Len(fResult) = 2

\* The values a date field of a feed item can hold
DateShapes == {NoDate, BadDate, 2}

\* The dates an item carries in a usable field
UsableDates(e) ==
  {d \in {e.published_parsed, e.updated_parsed, e.published, e.updated} : Usable(d)}

\* row was built from item e and bears one of its usable dates, or the
\* current time when it has none
DatedFrom(row, e) ==
  /\ row.url = OrEmptyUrl(e.link)
  /\ IF UsableDates(e) = {} THEN row.published_at = Now
     ELSE row.published_at \in UsableDates(e)

\* C11: every entry fetch_rss_entries collects and returns has a
\* published_at that is a date; it is a date of the feed item, or the
\* current time when no date field of the item is present and parses.
C11_EveryEntryIsDated ==
  /\ fPc = "start" =>
     \A pp \in DateShapes, up \in DateShapes, p \in DateShapes, u \in DateShapes :
         LET e == EntryU("a", <<"t">>, pp, up, p, u)
         IN  /\ Usable(parse_date(e))
             /\ UsableDates(e) = {} => parse_date(e) = Now
  /\ \A r \in {fRows[k] : k \in DOMAIN fRows} \cup {fResult[k] : k \in DOMAIN fResult} :
       /\ Usable(r.published_at)
       /\ \E i \in DOMAIN fFeeds : \E k \in DOMAIN web[fFeeds[i]].entries :
            k <= fLimit /\ DatedFrom(r, web[fFeeds[i]].entries[k])

\* The fetch returned an item that has no link and no date that parses,
\* dated with the current time
C11_Witness ==
  /\ fPc = "returned"
  /\ \E k \in DOMAIN fResult :
       fResult[k].url = "" /\ fResult[k].published_at = Now

\* The positions of the returned entries that bear the source name of feed f
FromFeed(f) ==
  {k \in DOMAIN fResult : fResult[k].source = get_source_name(web[f], f)}

\* C16: for every feed and every cap fLimit >= 0, the result of
\* fetch_rss_entries holds at most fLimit entries of that feed, each one
\* among the first fLimit items of the feed.
C16_PerFeedCap ==
  fPc = "returned" =>
    \A f \in FeedUrls :
      /\ Cardinality(FromFeed(f)) <= fLimit
      /\ \A k \in FromFeed(f) :
           \E j \in 1..fLimit :
             /\ j <= Len(web[f].entries)
             /\ fResult[k].url = OrEmptyUrl(web[f].entries[j].link)
             /\ fResult[k].title = OrEmptyText(web[f].entries[j].title)

\* A feed delivered two items with different links under a cap of one, and
\* the result holds its first item only
C16_Witness ==
  /\ fPc = "returned" /\ fLimit = 1
  /\ \E f \in FeedUrls :
       /\ Len(web[f].entries) = 2
       /\ web[f].entries[1].link # web[f].entries[2].link
       /\ Cardinality(FromFeed(f)) = 1
       /\ \A k \in FromFeed(f) : fResult[k].url = OrEmptyUrl(web[f].entries[1].link)

\* The first position of url u among the rows collected from the feeds
FirstCollected(u) ==
  CHOOSE p \in DOMAIN fRows :
    fRows[p].url = u /\ \A q \in 1..(p - 1) : fRows[q].url # u

\* C20: the urls of the list fetch_rss_entries returns are pairwise
\* distinct; the entry kept for a url is the first one collected with it,
\* feed after feed and item after item; the kept entries stand in the order
\* in which they were collected.
C20_FirstOfEachUrlInOrder ==
  fPc = "returned" =>
    /\ fRows = OkRowsUpTo(Len(fFeeds))
    /\ \A i, j \in DOMAIN fResult : i # j => fResult[i].url # fResult[j].url
    /\ UrlsOf(fResult) = UrlsOf(fRows)
    /\ \A i \in DOMAIN fResult : fResult[i] = fRows[FirstCollected(fResult[i].url)]
    /\ \A i, j \in DOMAIN fResult :
         i < j => FirstCollected(fResult[i].url) < FirstCollected(fResult[j].url)

\* Two feeds delivered an item with the same link: the result holds the
\* entry of the feed fetched first, ahead of a later item of that feed
C20_Witness ==
  /\ fPc = "returned" /\ Len(fRows) = 3 /\ Len(fResult) = 2
  /\ fRows[1].url # fRows[2].url /\ fRows[3].url = fRows[1].url
  /\ fRows[3].source # fRows[1].source
  /\ fResult = <<fRows[1], fRows[2]>>

\* C27: fetch_rss_entries visits the feeds it is given, each once per
\* listing and in the given order; called with None or with an empty list
\* it visits the DEFAULT_FEEDS catalog instead, and only then.
C27_GivenFeedsOrCatalog ==
  fPc # "start" =>
    /\ (fArg.given /\ fArg.list # <<>>) => fFeeds = fArg.list
    /\ (~fArg.given \/ fArg.list = <<>>) => fFeeds = DEFAULT_FEEDS
    /\ fIdx \in 1..(Len(fFeeds) + 1)
    /\ fRows = OkRowsUpTo(fIdx - 1)
    /\ fPc = "returned" => fIdx = Len(fFeeds) + 1

\* Called with an empty list, the fetch went through the catalog and
\* returned entries
C27_Witness ==
  /\ fPc = "returned" /\ fArg = FeedsArg(<<>>)
  /\ fFeeds = DEFAULT_FEEDS /\ Len(fResult) = 2

(* The source name over every short domain *)

MaxNetlocLen == 7

NetlocAlphabet == {"w", ".", "a"}

InitSource ==
  /\ nTitle \in {NoneText, <<"A">>}
  /\ nNetloc \in BSeq(NetlocAlphabet, MaxNetlocLen)
  /\ nPc = "call" /\ nName = <<>>
  /\ db = NoTable
  /\ WorldIdle /\ MainIdle /\ FetchIdle /\ ExtractIdle /\ FilterIdle /\ InsertIdle
  /\ ConcIdle /\ EnrichIdle

\* _get_source_name(parsed, fallback_url)
SourceName ==
  /\ nPc = "call"
  /\ nName' = source_name(nTitle, nNetloc)
  /\ nPc' = "done"
  /\ UNCHANGED <<nTitle, nNetloc, storeVars, worldVars, mainVars, fetchVars,
                 extractVars, filterVars, insertVars, concVars, enrichVars>>

NextSource == SourceName

SpecSource == InitSource /\ [][NextSource]_vars

\* The domain without a leading "www."
WithoutLeadingWww(netloc) ==
  IF Len(netloc) >= 4 /\ SubSeq(netloc, 1, 4) = <<"w", "w", "w", ".">>
    THEN SubSeq(netloc, 5, Len(netloc))
  ELSE netloc

\* C23: _get_source_name returns the declared title of the feed when it
\* has one, otherwise the domain of the feed address with only a leading
\* "www." removed.
C23_OnlyLeadingWwwStripped ==
  nPc = "done" =>
    nName = IF nTitle # NoneText THEN nTitle ELSE WithoutLeadingWww(nNetloc)

-----------------------------------------------------------------------------
(* The relevance filter over every short text *)

MaxTextLen == 4

FilterAlphabet == {"F", "f", "P", "p", "S", "s", "O", "o", "i", "l"}

InitFilter ==
  /\ qText \in BSeq(FilterAlphabet, MaxTextLen)
  /\ qPc = "call" /\ qResult = FALSE
  /\ db = NoTable
  /\ WorldIdle /\ MainIdle /\ FetchIdle /\ ExtractIdle /\ InsertIdle /\ ConcIdle /\ EnrichIdle /\ SourceIdle

Classify ==
  /\ qPc = "call"
  /\ qResult' = is_energy_related(qText)
  /\ qPc' = "done"
  /\ UNCHANGED <<qText, storeVars, worldVars, mainVars, fetchVars, extractVars,
                 insertVars, concVars, enrichVars, sourceVars>>

NextFilter == Classify

SpecFilter == InitFilter /\ [][NextFilter]_vars

\* The text holds a keyword of the vocabulary, letter case ignored on both
HoldsKeywordIgnoringCase(text) ==
  \E k \in 1..Len(ENERGY_KEYWORDS) : Contains(Lower(text), Lower(ENERGY_KEYWORDS[k]))

\* C10: is_energy_related(text) is true if and only if the text contains,
\* ignoring letter case, at least one keyword of the vocabulary as listed.
C10_MatchesIgnoringCase ==
  qPc = "done" => (qResult <=> HoldsKeywordIgnoringCase(qText))

-----------------------------------------------------------------------------
(* Enrichment: nlp/entities.py and the sentiment call of the entry point *)

Mention(text, label) == [text |-> text, label |-> label]

\* _unique(seq): keyed by the lower-cased form, the first casing is kept
RECURSIVE UniqueBy(_, _)
UniqueBy(s, seen) ==
  IF s = <<>> THEN <<>>
  ELSE IF Lower(Head(s)) \in seen THEN UniqueBy(Tail(s), seen)
  ELSE <<Head(s)>> \o UniqueBy(Tail(s), seen \cup {Lower(Head(s))})

\* A faulty variant of unique: strings differing in case are both kept
RECURSIVE UniqueExact(_, _)
UniqueExact(s, seen) ==
  IF s = <<>> THEN <<>>
  ELSE IF Head(s) \in seen THEN UniqueExact(Tail(s), seen)
  ELSE <<Head(s)>> \o UniqueExact(Tail(s), seen \cup {Head(s)})

unique_CaseSensitive(s) == UniqueExact(s, {})

unique(s) == UniqueBy(s, {})

MentionTexts(ents, label) ==
  LET sel == SelectSeq(ents, LAMBDA m : m.label = label)
  IN  [i \in 1..Len(sel) |-> Strip(sel[i].text)]

\* A faulty variant of extract_org_gpe: the backend is called although it
\* was not loaded
extract_org_gpe_NoBackendCheck(text, title, page, loaded) ==
  IF text = <<>> /\ title = <<>>
    THEN [orgs |-> <<>>, gpes |-> <<>>, raised |-> FALSE]
  ELSE IF page.nlp = "raise" \/ ~loaded
    THEN [orgs |-> <<>>, gpes |-> <<>>, raised |-> TRUE]
  ELSE LET ents == IF text # <<>> THEN page.titleEnts \o page.bodyEnts
                   ELSE page.titleEnts
       IN  [orgs |-> unique(MentionTexts(ents, "ORG")),
            gpes |-> unique(MentionTexts(ents, "GPE")), raised |-> FALSE]

\* extract_org_gpe(text, title): an exception of the NLP call is not caught
extract_org_gpe(text, title, page, loaded) ==
  IF (text = <<>> /\ title = <<>>) \/ ~loaded
    THEN [orgs |-> <<>>, gpes |-> <<>>, raised |-> FALSE]
  ELSE IF page.nlp = "raise"
    THEN [orgs |-> <<>>, gpes |-> <<>>, raised |-> TRUE]
  ELSE LET ents == IF text # <<>> THEN page.titleEnts \o page.bodyEnts
                   ELSE page.titleEnts
       IN  [orgs |-> unique(MentionTexts(ents, "ORG")),
            gpes |-> unique(MentionTexts(ents, "GPE")), raised |-> FALSE]

\* entities_to_json(orgs, gpes)
entities_to_json(orgs, gpes) == [org |-> orgs, gpe |-> gpes]

\* Lines 149-154 of the entry point: TextBlob polarity, None for empty
\* text or when scoring raises
sentiment_of(text, page) ==
  IF text = <<>> THEN NoneVal
  ELSE IF page.polarity = "raise" THEN NoneVal
  ELSE page.polarity

\* sentiment.py, score_text(text): 0.0 for empty text, else the compound
\* score the analyzer gives
score_text(text, compound) == IF text = <<>> THEN "0.0" ELSE compound

(* The enrichment functions over every small input *)

OilTitle == <<"O", "i", "l">>
GasTitle == <<"G", "a", "s">>
CatTitle == <<"C", "a", "t">>

MaxMentions == 3

\* Entity mentions an NLP pass can report: two casings of one name, a name
\* with a trailing blank, two casings of a place, a person
MentionPool ==
  {Mention(<<"B", "P">>, "ORG"), Mention(<<"B", "p">>, "ORG"),
   Mention(<<"b", "p", " ">>, "ORG"), Mention(<<"U", "S">>, "GPE"),
   Mention(<<"u", "s">>, "GPE"), Mention(<<"A", "l">>, "PERSON")}

\* The compound scores the analyzer can give
Compounds == {"-0.5", "0.0", "0.5"}

NotCalled == [called |-> FALSE, orgs |-> <<>>, gpes |-> <<>>, raised |-> FALSE]

\* The page the NLP pass reads: the first mention lies in the title, the
\* others in the body
EnrichPage ==
  [nlp |-> eIn.nlp,
   titleEnts |-> SubSeq(eIn.ents, 1, Min(1, Len(eIn.ents))),
   bodyEnts |-> SubSeq(eIn.ents, 2, Len(eIn.ents))]

InitEnrich ==
  /\ \E text \in {<<>>, GasText}, title \in {<<>>, OilTitle},
        ents \in BSeq(MentionPool, MaxMentions), nlp \in {"ok", "raise"} :
       eIn = [text |-> text, title |-> title, ents |-> ents, nlp |-> nlp]
  /\ eEntities = NotCalled /\ eScore = "unset"
  /\ nlpLoaded \in BOOLEAN /\ web = <<>>
  /\ db = NoTable
  /\ MainIdle /\ FetchIdle /\ ExtractIdle /\ FilterIdle /\ InsertIdle /\ ConcIdle /\ SourceIdle

\* extract_org_gpe(text, title=title)
EnrichEntities ==
  /\ ~eEntities.called
  /\ LET r == extract_org_gpe(eIn.text, eIn.title, EnrichPage, nlpLoaded)
     IN  eEntities' = [called |-> TRUE, orgs |-> r.orgs, gpes |-> r.gpes,
                       raised |-> r.raised]
  /\ UNCHANGED <<eIn, eScore, storeVars, worldVars, mainVars, fetchVars, extractVars,
                 filterVars, insertVars, concVars, sourceVars>>

\* score_text(text)
EnrichScore ==
  /\ eScore = "unset"
  /\ \E c \in Compounds : eScore' = score_text(eIn.text, c)
  /\ UNCHANGED <<eIn, eEntities, storeVars, worldVars, mainVars, fetchVars, extractVars,
                 filterVars, insertVars, concVars, sourceVars>>

NextEnrich == EnrichEntities \/ EnrichScore

SpecEnrich == InitEnrich /\ [][NextEnrich]_vars

\* C13: the sentiment scorer yields null for the empty string.
C13_EmptyTextScoresNull ==
  (eScore # "unset" /\ eIn.text = <<>>) => eScore = NoneVal

\* The mentions of one label the NLP pass reported, stripped, in order
Reported(label) ==
  MentionTexts(IF eIn.text # <<>> THEN EnrichPage.titleEnts \o EnrichPage.bodyEnts
               ELSE EnrichPage.titleEnts, label)

\* list holds one string per lower-cased key of seq: the first string of
\* seq with that key, in the order of those first strings
FirstOfEachKey(list, seq) ==
  /\ \A i, j \in DOMAIN list : i # j => Lower(list[i]) # Lower(list[j])
  /\ \A p \in DOMAIN seq : \E i \in DOMAIN list : Lower(list[i]) = Lower(seq[p])
  /\ \A i \in DOMAIN list : \E p \in DOMAIN seq :
       /\ seq[p] = list[i]
       /\ \A q \in 1..(p - 1) : Lower(seq[q]) # Lower(list[i])
       /\ \A j \in 1..(i - 1) : \E q \in 1..(p - 1) : seq[q] = list[j]

\* C14: each list extract_org_gpe returns holds no two strings equal
\* ignoring case, keeps for every lower-cased key the casing of its first
\* mention, and keeps the order of the first mentions.
C14_EntitiesUniqueIgnoringCase ==
  (eEntities.called /\ nlpLoaded /\ eIn.nlp = "ok"
     /\ (eIn.text # <<>> \/ eIn.title # <<>>)) =>
    /\ ~eEntities.raised
    /\ FirstOfEachKey(eEntities.orgs, Reported("ORG"))
    /\ FirstOfEachKey(eEntities.gpes, Reported("GPE"))

\* BP, then US, then Bp were reported: the lists are BP and US
C14_Witness ==
  /\ eEntities.called /\ nlpLoaded /\ eIn.nlp = "ok" /\ eIn.text # <<>>
  /\ eIn.ents = <<Mention(<<"B", "P">>, "ORG"), Mention(<<"U", "S">>, "GPE"),
                  Mention(<<"B", "p">>, "ORG")>>
  /\ eEntities.orgs = <<<<"B", "P">>>> /\ eEntities.gpes = <<<<"U", "S">>>>

-----------------------------------------------------------------------------
(* The ingestion entry point: scripts/ingest.py, main *)

\* argparse defaults of --days and --per-feed
DAYS     == 30
PER_FEED == 30

\* A faulty variant of filter_by_date: the date window is not applied
filter_by_date_KeepsAll(items, days) == items

\* filter_by_date(items, days): an item is kept when its date is not
\* before the cutoff, or is no datetime at all
filter_by_date(items, days) ==
  SelectSeq(items, LAMBDA it : it.published_at = NoDate \/ it.published_at <= days)

\* What the web and the backends answer for each article URL: the same
\* in every run (one feed and article snapshot)
Page(u) ==
  CASE u = "a" -> [extract |-> [s1 |-> Ok(GasText), s2 |-> Raises, s3 |-> Raises],
                   nlp |-> "ok", polarity |-> "0.5", titleEnts |-> <<>>,
                   bodyEnts |-> <<Mention(<<"B", "P">>, "ORG"), Mention(<<"U", "S">>, "GPE"),
                                  Mention(<<"B", "p">>, "ORG")>>]
    [] u = "b" -> [extract |-> [s1 |-> Raises, s2 |-> Ok(GasText), s3 |-> Raises],
                   nlp |-> "ok", polarity |-> "raise", titleEnts |-> <<>>,
                   bodyEnts |-> <<>>]
    [] u = "c" -> [extract |-> [s1 |-> Ok(CatText), s2 |-> Raises, s3 |-> Raises],
                   nlp |-> "ok", polarity |-> "0.0", titleEnts |-> <<>>,
                   bodyEnts |-> <<>>]
    [] u = "e" -> [extract |-> [s1 |-> Ok(GasText), s2 |-> Raises, s3 |-> Raises],
                   nlp |-> "raise", polarity |-> "0.5", titleEnts |-> <<>>,
                   bodyEnts |-> <<>>]
    [] OTHER   -> [extract |-> [s1 |-> Raises, s2 |-> Raises, s3 |-> Raises],
                   nlp |-> "ok", polarity |-> "0.0",
                   titleEnts |-> <<Mention(<<"U", "S">>, "GPE")>>, bodyEnts |-> <<>>]

\* One stage a run went through: the stage, the url of the item it worked
\* on (none for the stages of the whole run), the verdict of the filter
Stage(stage, url, verdict) == [stage |-> stage, url |-> url, verdict |-> verdict]

\* A faulty variant of process_item: the filter sees the title only, before
\* the body is extracted
process_item_FilterFirst(r, loaded) ==
  LET page    == Page(r.url)
      got     == fetch_article_text(page.extract)
      text    == IF got.kind = "returned" THEN got.text ELSE <<>>
      ents    == extract_org_gpe(text, r.title, page, loaded)
      ok      == is_energy_related(r.title)
      head    == <<Stage("relevance", r.url, ok)>>
  IN  IF ~ok THEN [kind |-> "skip", row |-> <<>>, log |-> head]
      ELSE IF ents.raised
        THEN [kind |-> "raised", row |-> <<>>,
              log |-> head \o <<Stage("extract", r.url, FALSE),
                                Stage("entities", r.url, FALSE)>>]
      ELSE [kind |-> "row",
            row |-> MkRow(r.source, r.title, r.url, r.published_at, text,
                          entities_to_json(ents.orgs, ents.gpes),
                          sentiment_of(text, page)),
            log |-> head \o <<Stage("extract", r.url, FALSE),
                              Stage("entities", r.url, FALSE)>> \o
                    (IF text # <<>> THEN <<Stage("sentiment", r.url, FALSE)>> ELSE <<>>)]

\* One iteration of the loop over items, lines 129-165: the body is
\* extracted (136-139), the filter reads title, summary and body (142-144),
\* then entities (146) and sentiment (149-154) are computed.
\* kind: "skip" (not energy-related), "row" (enriched), "raised";
\* log: the stages the iteration went through
process_item(r, loaded) ==
  LET page    == Page(r.url)
      got     == fetch_article_text(page.extract)
      text    == IF got.kind = "returned" THEN got.text ELSE <<>>
      summary == <<>>
      content == r.title \o <<" ">> \o summary \o <<" ">> \o text
      ents    == extract_org_gpe(text, r.title, page, loaded)
      ok      == is_energy_related(content)
      head    == <<Stage("extract", r.url, FALSE), Stage("relevance", r.url, ok)>>
  IN  IF ~ok THEN [kind |-> "skip", row |-> <<>>, log |-> head]
      ELSE IF ents.raised
        THEN [kind |-> "raised", row |-> <<>>,
              log |-> Append(head, Stage("entities", r.url, FALSE))]
      ELSE [kind |-> "row",
            row |-> MkRow(r.source, r.title, r.url, r.published_at, text,
                          entities_to_json(ents.orgs, ents.gpes),
                          sentiment_of(text, page)),
            log |-> Append(head, Stage("entities", r.url, FALSE)) \o
                    (IF text # <<>> THEN <<Stage("sentiment", r.url, FALSE)>> ELSE <<>>)]

MaxItems == 2
MaxRuns  == 2

\* The feed items of the snapshots: an energy item, an item relevant by its
\* body only, an item without link, a second item for url a, an item that
\* is not about energy, an old item, an item whose NLP pass fails, an item
\* dated exactly at the cutoff
PipelineEntries ==
  {Entry("a", OilTitle, 2, NoDate), Entry("b", CatTitle, NoDate, 10),
   Entry(NoneVal, OilTitle, NoDate, NoDate), Entry("a", GasTitle, 2, NoDate),
   Entry("c", CatTitle, 2, NoDate), Entry("d", OilTitle, 40, NoDate),
   Entry("e", OilTitle, 2, NoDate), Entry("f", OilTitle, DAYS, NoDate)}

Init ==
  /\ db = NoTable
  /\ \E es \in BSeq(PipelineEntries, MaxItems) :
       \E d \in {FailedDoc("feedB"), OkDoc("feedB", <<>>),
                 OkDoc("feedB", <<Entry("a", GasTitle, 2, NoDate)>>)} :
         web = [f \in FeedUrls |-> IF f = "feedA" THEN OkDoc("feedA", es) ELSE d]
  /\ nlpLoaded \in BOOLEAN
  /\ MainIdle /\ FetchIdle /\ ExtractIdle /\ FilterIdle /\ InsertIdle /\ ConcIdle /\ EnrichIdle /\ SourceIdle

\* A run ends: the outcome is recorded and the entry point can be run again
EndRun(outcome, newdb, reported) ==
  /\ pc' = "idle" /\ df' = <<>> /\ idx' = 0 /\ rows' = <<>>
  /\ runs' = runs + 1
  /\ lastOutcome' = outcome
  /\ lastAdded' = Len(newdb.rows) - Len(db.rows)
  /\ lastReported' = reported
  /\ db' = newdb
  /\ dbAfterFirst' = IF runs = 0 THEN newdb ELSE dbAfterFirst

\* Lines 106-127: fetch, date window, dedupe
MainStart ==
  /\ pc = "idle" /\ runs < MaxRuns
  /\ LET f     == fetch_rss_entries(NoFeedsArg, PER_FEED, web)
         items == filter_by_date(f.rows, DAYS)
     IN  /\ trail' = IF f.raised \/ f.rows = <<>> THEN <<>>
                      ELSE <<Stage("date_filter", NoneVal, FALSE)>>
         /\ IF f.raised THEN EndRun("raised", db, 0)
            ELSE IF f.rows = <<>> THEN EndRun("no_items", db, 0)
            ELSE IF items = <<>> THEN EndRun("no_url", db, 0)
            ELSE /\ df' = drop_duplicates_url(dropna_url(items))
                 /\ pc' = "loop" /\ idx' = 1 /\ rows' = <<>>
                 /\ UNCHANGED <<db, runs, lastOutcome, lastAdded, lastReported,
                                dbAfterFirst>>
  /\ UNCHANGED <<worldVars, fetchVars, extractVars, filterVars, insertVars, concVars, enrichVars, sourceVars>>

\* Lines 129-165, one item: an exception that the loop body does not catch
\* leaves main
MainProcessItem ==
  /\ pc = "loop" /\ idx <= Len(df)
  /\ LET it == process_item(df[idx], nlpLoaded)
     IN  /\ trail' = trail \o it.log
         /\ IF it.kind = "raised" THEN EndRun("raised", db, 0)
            ELSE /\ rows' = IF it.kind = "row" THEN Append(rows, it.row) ELSE rows
                 /\ idx' = idx + 1
                 /\ UNCHANGED <<db, pc, df, runs, lastOutcome, lastAdded, lastReported,
                                dbAfterFirst>>
  /\ UNCHANGED <<worldVars, fetchVars, extractVars, filterVars, insertVars, concVars, enrichVars, sourceVars>>

\* Lines 167-178: the commit; an exception of insert_articles is caught and
\* printed, otherwise len(df_out) is printed as the inserted count
MainCommit ==
  /\ pc = "loop" /\ idx > Len(df)
  /\ trail' = IF rows = <<>> THEN trail
               ELSE Append(trail, Stage("commit", NoneVal, FALSE))
  /\ IF rows = <<>> THEN EndRun("nothing", db, 0)
     ELSE LET r == insert_articles(db, rows)
          IN  IF r.raised THEN EndRun("insert_error", r.db, 0)
              ELSE EndRun("inserted", r.db, Len(rows))
  /\ UNCHANGED <<worldVars, fetchVars, extractVars, filterVars, insertVars, concVars, enrichVars, sourceVars>>

Next == MainStart \/ MainProcessItem \/ MainCommit \/ InitDb

Spec == Init /\ [][Next]_vars

\* C1: a second run of the entry point on the same snapshot adds 0 rows and
\* leaves the stored rows as the first run left them; no URL is stored twice.
C1_SecondRunAddsNothing ==
  runs >= 1 =>
    /\ db.rows = dbAfterFirst.rows
    /\ runs >= 2 => lastAdded = 0
    /\ \A i, j \in DOMAIN db.rows : i # j => db.rows[i].url # db.rows[j].url

\* The first run inserted two rows; the second run reached its commit and
\* added none
C1_Witness ==
  /\ pc = "idle" /\ runs = 2 /\ lastOutcome = "inserted" /\ lastAdded = 0
  /\ Len(db.rows) = 2

\* C5: no stored row has a missing or empty url.
C5_NoEmptyUrlStored ==
  \A i \in DOMAIN db.rows : db.rows[i].url # NoneVal /\ db.rows[i].url # ""

\* C8: an exception while one item is processed never ends the run: every
\* run goes through all its items and reaches its commit.
C8_ItemFailureIsContained ==
  lastOutcome # "raised"

\* What the fetch of a run returns: the web does not change between runs
Fetched == fetch_rss_entries(NoFeedsArg, PER_FEED, web).rows

\* The positions of the items of F dated at or after now minus DAYS
Recent(F) == {i \in DOMAIN F : F[i].published_at <= DAYS}

\* The k-th position of the set W of positions
Nth(W, k) == CHOOSE i \in W : Cardinality({j \in W : j < i}) = k - 1

InWindow == Recent(Fetched)

NoEntities == entities_to_json(<<>>, <<>>)

\* C15: extract_org_gpe returns two empty lists and does not raise when the
\* NLP backend is not loaded, whatever the text and title, or when title
\* and body are both empty; a run without the backend does not raise in
\* its items, and stores every item it accepted, with empty entity lists.
C15_NoBackendStillPersists ==
  /\ (pc = "idle" /\ runs = 0) =>
       \A text \in {<<>>, GasText}, title \in {<<>>, OilTitle},
          u \in {"a", "e", "f"}, loaded \in BOOLEAN :
         (~loaded \/ (text = <<>> /\ title = <<>>)) =>
           extract_org_gpe(text, title, Page(u), loaded) =
             [orgs |-> <<>>, gpes |-> <<>>, raised |-> FALSE]
  /\ ~nlpLoaded =>
       /\ lastOutcome # "raised"
       /\ \A k \in DOMAIN rows : rows[k].entities = NoEntities
       /\ \A k \in DOMAIN db.rows : db.rows[k].entities = NoEntities
       /\ (pc = "idle" /\ runs >= 1) =>
            \A i \in InWindow :
              LET it == Fetched[i]
                  got == fetch_article_text(Page(it.url).extract)
              IN  is_energy_related(it.title \o <<" ", " ">> \o got.text) =>
                    it.url \in UrlsOf(db.rows)

\* Without the backend, a run stored the item whose NLP pass would have
\* raised, with empty entity lists
C15_Witness ==
  /\ ~nlpLoaded /\ pc = "idle" /\ lastOutcome = "inserted"
  /\ \E k \in DOMAIN db.rows :
       db.rows[k].url = "e" /\ db.rows[k].entities = NoEntities

\* C17: when a run ends with its commit, the inserted count it reports is
\* the number of rows the commit added to the store.
C17_ReportedCountIsAdded ==
  (pc = "idle" /\ lastOutcome = "inserted") => lastReported = lastAdded

\* The positions of the trail at which stage s worked on url u
StagesOf(s, u) == {p \in DOMAIN trail : trail[p].stage = s /\ trail[p].url = u}

\* The items of the run whose iteration is over
Processed == {df[k] : k \in 1..(IF pc = "loop" THEN idx - 1 ELSE 0)}

\* C18: a run goes through date filter, body extraction, relevance filter,
\* enrichment and commit in this order; the relevance filter runs once per
\* candidate, right after the extraction of its body, on title, summary and
\* extracted body; entities, sentiment and the rows handed to
\* insert_articles exist only for items the filter accepted.
C18_StagesInOrder ==
  LET F == Fetched
      W == Recent(F)
  IN
  /\ \A p \in DOMAIN trail :
       /\ trail[p].stage = "date_filter" <=> p = 1
       /\ trail[p].stage = "commit" => p = Len(trail)
       /\ trail[p].stage = "relevance" =>
            /\ p > 1 /\ trail[p - 1] = Stage("extract", trail[p].url, FALSE)
            /\ \E i \in W :
                 /\ F[i].url = trail[p].url
                 /\ \A j \in W : j < i => F[j].url # F[i].url
                 /\ trail[p].verdict =
                      is_energy_related(
                        F[i].title \o <<" ", " ">> \o
                        fetch_article_text(Page(F[i].url).extract).text)
       /\ trail[p].stage = "entities" =>
            p > 1 /\ trail[p - 1] = Stage("relevance", trail[p].url, TRUE)
       /\ trail[p].stage = "sentiment" =>
            p > 1 /\ trail[p - 1] = Stage("entities", trail[p].url, FALSE)
  /\ \A it \in Processed :
       Cardinality(StagesOf("relevance", it.url)) = 1
  /\ \A k \in DOMAIN rows :
       \E p \in DOMAIN trail : trail[p] = Stage("relevance", rows[k].url, TRUE)
  /\ (pc = "idle" /\ runs >= 1 /\ lastOutcome = "inserted") =>
       trail[Len(trail)].stage = "commit"

\* A run committed after an item was accepted for its extracted body only
\* and another was rejected
C18_Witness ==
  /\ pc = "idle" /\ lastOutcome = "inserted"
  /\ \E p \in DOMAIN trail : trail[p] = Stage("relevance", "b", TRUE)
  /\ \E p \in DOMAIN trail : trail[p] = Stage("relevance", "c", FALSE)
  /\ trail[Len(trail)].stage = "commit"

\* C24: whenever the articles table exists it has the UNIQUE constraint on
\* url, also when an ingestion run's append made the table.
C24_TableHasUnique ==
  db.exists => db.unique

====
